---- MODULE Spec2Model ----
(***************************************************************************)
(* Model of the /route handler of the bike-router service and of the       *)
(* helpers it calls: the instruction aggregator, the raw waypoint builder, *)
(* the three simplification stages (simplifyRoute, removeZigZags,          *)
(* mergeDuplicateDescriptions) and the downhill annotator.                  *)
(*                                                                         *)
(* Go strings that the code inspects character by character are sequences  *)
(* of one-character strings (<<"O","a","k">> is "Oak", <<>> is "").        *)
(* Strings the code only compares as a whole (Maneuver, address component  *)
(* types, the handler's position) are TLA+ strings.                        *)
(*                                                                         *)
(* Coordinates lie on one meridian (Lng = 0); Lat counts grid cells of     *)
(* GridMeters metres of arc, for which the haversine formula gives         *)
(* R * |dLat| = GridMeters * |Lat1 - Lat2|.  Elevations are integers.      *)
(***************************************************************************)
EXTENDS Integers, Sequences, FiniteSets

\* ------------------------------------------------------------------------
\* Bounds of the model
\* ------------------------------------------------------------------------
MaxInput == 5
MaxLen == 4
MaxLat == 3
MaxParts == 3
MaxShared == 3
GridMeters == 25

\* ------------------------------------------------------------------------
\* Program constants
\* ------------------------------------------------------------------------
MinDist == 50
MinBacktrack == 30

StatusOK == 200
StatusBadRequest == 400
StatusNotFound == 404
StatusMethodNotAllowed == 405
StatusInternalServerError == 500

\* ------------------------------------------------------------------------
\* strings package, as far as the handler uses it
\* ------------------------------------------------------------------------
SetMin(S) == CHOOSE x \in S : \A y \in S : x <= y
SetMax(S) == CHOOSE x \in S : \A y \in S : x >= y

UpperCase ==
  <<"A","B","C","D","E","F","G","H","I","J","K","L","M",
    "N","O","P","Q","R","S","T","U","V","W","X","Y","Z">>
LowerCase ==
  <<"a","b","c","d","e","f","g","h","i","j","k","l","m",
    "n","o","p","q","r","s","t","u","v","w","x","y","z">>
WhiteSpace == {" ", "\t", "\n", "\r"}

ToLowerRune(c) ==
  IF \E k \in 1..26 : UpperCase[k] = c
    THEN LowerCase[CHOOSE k \in 1..26 : UpperCase[k] = c]
    ELSE c

\* A Go string is a sequence of bytes.  The elements of a model string are
\* its bytes: an ASCII byte is written as its character, any other byte by
\* its hexadecimal value.  WideUpper is the UTF-8 encoding of U+023A and
\* WideLower that of its lower case U+2C65, one byte longer.
WideUpper == <<"C8", "BA">>
WideLower == <<"E2", "B1", "A5">>

\* strings.ToLower: each rune is replaced by the encoding of its lower case
RECURSIVE ToLower(_)
ToLower(s) ==
  IF Len(s) = 0 THEN <<>>
  ELSE IF Len(s) >= 2 /\ SubSeq(s, 1, 2) = WideUpper
    THEN WideLower \o ToLower(SubSeq(s, 3, Len(s)))
  ELSE <<ToLowerRune(s[1])>> \o ToLower(Tail(s))

\* strings.Index: 0-based offset of the first occurrence of sub in s, or -1
Index(s, sub) ==
  LET hits == {k \in 0..(Len(s) - Len(sub)) : SubSeq(s, k + 1, k + Len(sub)) = sub}
  IN IF hits = {} THEN -1 ELSE SetMin(hits)

Contains(s, sub) == Index(s, sub) >= 0

HasPrefix(s, p) == Len(s) >= Len(p) /\ SubSeq(s, 1, Len(p)) = p

TrimSpace(s) ==
  LET keep == {k \in 1..Len(s) : s[k] \notin WhiteSpace}
  IN IF keep = {} THEN <<>> ELSE SubSeq(s, SetMin(keep), SetMax(keep))

\* the Go slice expression s[k:]
SliceFrom(s, k) == SubSeq(s, k + 1, Len(s))
\* the Go slice expression s[:k]
SliceTo(s, k) == SubSeq(s, 1, k)

\* ------------------------------------------------------------------------
\* String literals of the program
\* ------------------------------------------------------------------------
LitOnto == <<" ","o","n","t","o"," ">>
LitOn == <<" ","o","n"," ">>
LitBOpen == <<"<","b",">">>
LitBClose == <<"<","/","b",">">>
LitPlus == <<"+">>
LitUnnamed == <<"U","n","n","a","m","e","d">>
LitDestination == <<"D","e","s","t","i","n","a","t","i","o","n">>
LitArriveAt == <<"A","r","r","i","v","e"," ","a","t"," ">>

\* ------------------------------------------------------------------------
\* Label helpers
\* ------------------------------------------------------------------------
RECURSIVE stripLoop(_, _, _, _)
stripLoop(s, k, inTag, out) ==
  IF k > Len(s) THEN out
  ELSE IF s[k] = "<" THEN stripLoop(s, k + 1, TRUE, out)
  ELSE IF s[k] = ">" THEN stripLoop(s, k + 1, FALSE, out)
  ELSE stripLoop(s, k + 1, inTag, IF inTag THEN out ELSE Append(out, s[k]))

stripHTML(s) == TrimSpace(stripLoop(s, 1, FALSE, <<>>))

\* the text of the first <b>...</b> span of s, trimmed; found = FALSE when
\* s has no complete span
FirstBold(s) ==
  LET start == Index(s, LitBOpen)
      after == SliceFrom(s, start + 3)
      end == Index(after, LitBClose)
  IN IF start >= 0 /\ end >= 0
       THEN [found |-> TRUE, text |-> TrimSpace(SliceTo(after, end))]
       ELSE [found |-> FALSE, text |-> <<>>]

extractStreetNameFromHTML(html) ==
  LET lower == ToLower(html)
      idxOnto == Index(lower, LitOnto)
      idxOn == Index(lower, LitOn)
      viaOnto == IF idxOnto >= 0 THEN FirstBold(SliceFrom(html, idxOnto + 6))
                 ELSE [found |-> FALSE, text |-> <<>>]
      viaOn == IF idxOn >= 0 THEN FirstBold(SliceFrom(html, idxOn + 4))
               ELSE [found |-> FALSE, text |-> <<>>]
  IN IF viaOnto.found THEN viaOnto.text
     ELSE IF viaOn.found THEN viaOn.text
     ELSE stripHTML(html)

\* the slice expressions html[idx+6:] and html[idx+4:] take idx from the
\* lower-cased copy: when idx+6 (idx+4) exceeds len(html) the run-time bounds
\* check panics
extractStreetNameFromHTMLPanics(html) ==
  LET lower == ToLower(html)
      idxOnto == Index(lower, LitOnto)
      idxOn == Index(lower, LitOn)
  IN \/ idxOnto >= 0 /\ idxOnto + 6 > Len(html)
     \/ /\ ~(idxOnto >= 0 /\ FirstBold(SliceFrom(html, idxOnto + 6)).found)
        /\ idxOn >= 0
        /\ idxOn + 4 > Len(html)

\* mutant: the formatted address is rejected only when it starts with
\* "Unnamed"
extractStreetNameFromReverseGeocodePrefixOnly(resp) ==
  IF resp.err \/ Len(resp.results) = 0 THEN <<>>
  ELSE
    LET comps == resp.results[1].AddressComponents
        routes == {k \in 1..Len(comps) :
                     \E t \in 1..Len(comps[k].Types) : comps[k].Types[t] = "route"}
        formatted == resp.results[1].FormattedAddress
    IN IF routes # {}
         THEN LET name == comps[SetMin(routes)].LongName
              IN IF Contains(name, LitPlus) \/ HasPrefix(name, LitUnnamed)
                   THEN <<>> ELSE name
         ELSE IF Contains(formatted, LitPlus) \/ HasPrefix(formatted, LitUnnamed)
                THEN <<>> ELSE formatted

\* resp is what client.ReverseGeocode returned: [err, results], each result
\* [AddressComponents: Seq([Types, LongName]), FormattedAddress]
extractStreetNameFromReverseGeocode(resp) ==
  IF resp.err \/ Len(resp.results) = 0 THEN <<>>
  ELSE
    LET comps == resp.results[1].AddressComponents
        routes == {k \in 1..Len(comps) :
                     \E t \in 1..Len(comps[k].Types) : comps[k].Types[t] = "route"}
        formatted == resp.results[1].FormattedAddress
    IN IF routes # {}
         THEN LET name == comps[SetMin(routes)].LongName
              IN IF Contains(name, LitPlus) \/ HasPrefix(name, LitUnnamed)
                   THEN <<>> ELSE name
         ELSE IF Contains(formatted, LitPlus) \/ Contains(formatted, LitUnnamed)
                THEN <<>> ELSE formatted

\* resp is what client.Elevation returned: [err, results: Seq(Int)];
\* the result is the pair (value, err) of the Go function
getElevation(resp) ==
  IF resp.err \/ Len(resp.results) = 0
    THEN [value |-> 0, err |-> resp.err]
    ELSE [value |-> resp.results[1], err |-> FALSE]

\* the handler's use of getElevation: elev = 0 when err != nil
elevationOf(resp) ==
  LET r == getElevation(resp) IN IF r.err THEN 0 ELSE r.value

\* ------------------------------------------------------------------------
\* Geometry
\* ------------------------------------------------------------------------
Abs(x) == IF x < 0 THEN -x ELSE x

haversine(lat1, lng1, lat2, lng2) == GridMeters * Abs(lat2 - lat1)

\* ------------------------------------------------------------------------
\* RouteSimplifier stages
\* ------------------------------------------------------------------------
\* mutant: a point exactly minDist away from the last kept one is dropped
RECURSIVE simplifyLoopStrict(_, _, _, _)
simplifyLoopStrict(points, minDist, i, simplified) ==
  IF i >= Len(points) - 1 THEN simplified
  ELSE
    LET last == simplified[Len(simplified)]
        curr == points[i + 1]
        dist == haversine(last.Lat, last.Lng, curr.Lat, curr.Lng)
    IN simplifyLoopStrict(points, minDist, i + 1,
                          IF dist > minDist THEN Append(simplified, curr) ELSE simplified)

\* i is the Go (0-based) loop index; points[i] of the code is points[i + 1]
RECURSIVE simplifyLoop(_, _, _, _)
simplifyLoop(points, minDist, i, simplified) ==
  IF i >= Len(points) - 1 THEN simplified
  ELSE
    LET last == simplified[Len(simplified)]
        curr == points[i + 1]
        dist == haversine(last.Lat, last.Lng, curr.Lat, curr.Lng)
    IN simplifyLoop(points, minDist, i + 1,
                    IF dist >= minDist THEN Append(simplified, curr) ELSE simplified)

\* mutant: the loop runs over the last point too and nothing is appended
\* after it, so the last point is kept only when it is far enough
simplifyRouteLastFiltered(points, minDist) ==
  IF Len(points) <= 2 THEN points
  ELSE simplifyLoop(Append(points, points[Len(points)]), minDist, 1, <<points[1]>>)

\* mutant: only the empty input returns early
simplifyRouteGuardEmpty(points, minDist) ==
  IF Len(points) = 0 THEN points
  ELSE Append(simplifyLoop(points, minDist, 1, <<points[1]>>), points[Len(points)])

simplifyRoute(points, minDist) ==
  IF Len(points) <= 2 THEN points
  ELSE Append(simplifyLoop(points, minDist, 1, <<points[1]>>), points[Len(points)])

\* mutant: prev is the raw predecessor of curr, not the last kept element
RECURSIVE zigZagLoopRawPrev(_, _, _, _)
zigZagLoopRawPrev(points, minBacktrack, i, cleaned) ==
  IF i >= Len(points) - 1 THEN cleaned
  ELSE
    LET prev == points[i]
        curr == points[i + 1]
        next == points[i + 2]
        d1 == haversine(prev.Lat, prev.Lng, curr.Lat, curr.Lng)
        d2 == haversine(curr.Lat, curr.Lng, next.Lat, next.Lng)
        backtrack == haversine(prev.Lat, prev.Lng, next.Lat, next.Lng)
    IN zigZagLoopRawPrev(points, minBacktrack, i + 1,
                         IF backtrack < d1 /\ backtrack < d2 /\ backtrack < minBacktrack
                           THEN cleaned ELSE Append(cleaned, curr))

RECURSIVE zigZagLoop(_, _, _, _)
zigZagLoop(points, minBacktrack, i, cleaned) ==
  IF i >= Len(points) - 1 THEN cleaned
  ELSE
    LET prev == cleaned[Len(cleaned)]
        curr == points[i + 1]
        next == points[i + 2]
        d1 == haversine(prev.Lat, prev.Lng, curr.Lat, curr.Lng)
        d2 == haversine(curr.Lat, curr.Lng, next.Lat, next.Lng)
        backtrack == haversine(prev.Lat, prev.Lng, next.Lat, next.Lng)
    IN zigZagLoop(points, minBacktrack, i + 1,
                  IF backtrack < d1 /\ backtrack < d2 /\ backtrack < minBacktrack
                    THEN cleaned ELSE Append(cleaned, curr))

\* mutant: only the empty input returns early, so a single point is
\* emitted twice
removeZigZagsGuardEmpty(points, minBacktrack) ==
  IF Len(points) = 0 THEN points
  ELSE Append(zigZagLoop(points, minBacktrack, 1, <<points[1]>>), points[Len(points)])

\* mutant: the final element is not appended after the loop
removeZigZagsNoLast(points, minBacktrack) ==
  IF Len(points) < 3 THEN points
  ELSE zigZagLoop(points, minBacktrack, 1, <<points[1]>>)

removeZigZags(points, minBacktrack) ==
  IF Len(points) < 3 THEN points
  ELSE Append(zigZagLoop(points, minBacktrack, 1, <<points[1]>>), points[Len(points)])

\* mutant: a run is represented by its last element
RECURSIVE mergeLoopKeepLast(_, _, _)
mergeLoopKeepLast(points, i, merged) ==
  IF i >= Len(points) THEN merged
  ELSE mergeLoopKeepLast(points, i + 1,
         IF points[i + 1].Description # merged[Len(merged)].Description
           THEN Append(merged, points[i + 1])
           ELSE [merged EXCEPT ![Len(merged)] = points[i + 1]])

RECURSIVE mergeLoop(_, _, _)
mergeLoop(points, i, merged) ==
  IF i >= Len(points) THEN merged
  ELSE mergeLoop(points, i + 1,
                 IF points[i + 1].Description # merged[Len(merged)].Description
                   THEN Append(merged, points[i + 1]) ELSE merged)

mergeDuplicateDescriptions(points) ==
  IF Len(points) = 0 THEN points
  ELSE mergeLoop(points, 1, <<points[1]>>)

\* Steps 1 to 3 of the handler
simplifyPipeline(points) ==
  mergeDuplicateDescriptions(removeZigZags(simplifyRoute(points, MinDist), MinBacktrack))

\* mutant: a level segment is flagged as downhill too
RECURSIVE setDownhillOrLevel(_, _)
setDownhillOrLevel(simplified, j) ==
  IF j >= Len(simplified) - 1 THEN simplified
  ELSE setDownhillOrLevel(
         IF simplified[j + 2].Elevation <= simplified[j + 1].Elevation
           THEN [simplified EXCEPT ![j + 1].IsDownHill = TRUE]
           ELSE simplified,
         j + 1)

\* Step 4 of the handler; j is the Go (0-based) loop index
RECURSIVE setDownhill(_, _)
setDownhill(simplified, j) ==
  IF j >= Len(simplified) - 1 THEN simplified
  ELSE setDownhill(
         IF simplified[j + 2].Elevation < simplified[j + 1].Elevation
           THEN [simplified EXCEPT ![j + 1].IsDownHill = TRUE]
           ELSE simplified,
         j + 1)

\* ------------------------------------------------------------------------
\* Body of the handler's step loop and leg loop
\* ------------------------------------------------------------------------
\* mutant: the totals are advanced before the Instruction is built
stepInstructionAfter(step, cumDist, cumTime) ==
  LET htmlInst == step.HTMLInstructions
      name == extractStreetNameFromHTML(htmlInst)
      streetName == IF name = <<>> THEN stripHTML(htmlInst) ELSE name
  IN [Instruction |-> htmlInst,
      DistanceMeters |-> cumDist + step.Distance,
      DurationSeconds |-> cumTime + step.Duration,
      Maneuver |-> "",
      StreetName |-> streetName,
      StartLocation |-> [Lat |-> step.StartLocation.Lat, Lng |-> step.StartLocation.Lng]]

\* the Instruction built for a step from the totals accumulated so far
stepInstruction(step, cumDist, cumTime) ==
  LET htmlInst == step.HTMLInstructions
      name == extractStreetNameFromHTML(htmlInst)
      streetName == IF name = <<>> THEN stripHTML(htmlInst) ELSE name
  IN [Instruction |-> htmlInst,
      DistanceMeters |-> cumDist,
      DurationSeconds |-> cumTime,
      Maneuver |-> "",
      StreetName |-> streetName,
      StartLocation |-> [Lat |-> step.StartLocation.Lat, Lng |-> step.StartLocation.Lng]]

\* desc of a step: the reverse-geocoded street name, else the stripped markup
stepDesc(step, geo) ==
  LET desc == extractStreetNameFromReverseGeocode(geo)
  IN IF desc = <<>> THEN stripHTML(step.HTMLInstructions) ELSE desc

\* mutant: only an empty street name is skipped
stepSkippedEmptyOnly(desc, last) == desc = <<>>

\* "Skip repeated or empty street names"
stepSkipped(desc, last) == desc = <<>> \/ desc = last

stepPoint(step, desc, elevResp) ==
  [Lat |-> step.StartLocation.Lat,
   Lng |-> step.StartLocation.Lng,
   Description |-> desc,
   Elevation |-> elevationOf(elevResp),
   IsDownHill |-> FALSE]

\* mutant: an empty end-of-leg label is kept
legEndDescNoFallback(geo) == extractStreetNameFromReverseGeocode(geo)

legEndDesc(geo) ==
  LET endDesc == extractStreetNameFromReverseGeocode(geo)
  IN IF endDesc = <<>> THEN LitDestination ELSE endDesc

arriveInstruction(endLocation, endDesc, cumDist, cumTime) ==
  [Instruction |-> LitArriveAt \o endDesc,
   DistanceMeters |-> cumDist,
   DurationSeconds |-> cumTime,
   Maneuver |-> "arrive",
   StreetName |-> endDesc,
   StartLocation |-> [Lat |-> endLocation.Lat, Lng |-> endLocation.Lng]]

legEndPoint(endLocation, endDesc, elevResp) ==
  [Lat |-> endLocation.Lat,
   Lng |-> endLocation.Lng,
   Description |-> endDesc,
   Elevation |-> elevationOf(elevResp),
   IsDownHill |-> FALSE]

\* ------------------------------------------------------------------------
\* What the provider and the lookups can answer
\* ------------------------------------------------------------------------
HtmlOnto == <<"L"," ","o","n","t","o"," ","<","b",">","E","l","m","<","/","b",">">>
HtmlNone == <<>>
HtmlWide == WideUpper \o <<" ","o","n"," ">>
NameOak == <<"O","a","k">>

Lats == {0, 2}

\* steps of the directions response
DirectionSteps ==
  { [StartLocation |-> [Lat |-> 0, Lng |-> 0], HTMLInstructions |-> HtmlOnto,
     Distance |-> 40, Duration |-> 30],
    [StartLocation |-> [Lat |-> 2, Lng |-> 0], HTMLInstructions |-> HtmlNone,
     Distance |-> 0, Duration |-> 0],
    [StartLocation |-> [Lat |-> 2, Lng |-> 0], HTMLInstructions |-> HtmlWide,
     Distance |-> 40, Duration |-> 30] }

GeoErr == [err |-> TRUE, results |-> <<>>]
GeoOak ==
  [err |-> FALSE,
   results |-> << [AddressComponents |-> << [Types |-> <<"street_number">>,
                                              LongName |-> <<"1">>],
                                             [Types |-> <<"route">>,
                                              LongName |-> NameOak] >>,
                   FormattedAddress |-> <<"1"," ","O","a","k">>] >>]
GeoResponses == {GeoErr, GeoOak}

ElevErr == [err |-> TRUE, results |-> <<>>]
ElevHigh == [err |-> FALSE, results |-> <<7>>]
ElevResponses == {ElevErr, ElevHigh}

EndLocations == {[Lat |-> lat, Lng |-> 0] : lat \in Lats}

\* inputs of the stage specification
StagePoints ==
  [Lat : 0..MaxLat, Lng : {0}, Description : {<<"A">>, <<"B">>},
   Elevation : {0}, IsDownHill : {FALSE}]
StageInputs == UNION {[1..n -> StagePoints] : n \in 0..MaxLen}
Thresholds == {15, 30, 50}

\* ------------------------------------------------------------------------
\* State
\* ------------------------------------------------------------------------
VARIABLES
  pc,                  \* position of the handler
  status,              \* HTTP status written, 0 while none
  routesResp,          \* routes of the directions response iterated so far
  rt,                  \* legs of the current route iterated so far
  leg,                 \* steps of the current leg iterated so far
  out,                 \* out.Routes
  routeID,             \* route.ID
  points,
  instructions,
  cumulativeDistance,
  cumulativeTime,
  lastDesc,
  W,                   \* stage specification: the input sequence
  threshold,           \* stage specification: the threshold applied
  result,              \* stage specification: the stage's output
  stage,               \* stage specification: which stage was applied
  parked               \* the locals of a second request, while it is not running

handlerVars ==
  <<pc, status, routesResp, rt, leg, out, routeID, points, instructions,
    cumulativeDistance, cumulativeTime, lastDesc>>
stageVars == <<W, threshold, result, stage>>
vars == <<handlerVars, stageVars, parked>>

RECURSIVE SumLens(_)
SumLens(legs) ==
  IF Len(legs) = 0 THEN 0 ELSE Len(legs[1].Steps) + SumLens(Tail(legs))

RECURSIVE StepsOfRoutes(_)
StepsOfRoutes(routes) ==
  IF Len(routes) = 0 THEN 0 ELSE SumLens(routes[1]) + StepsOfRoutes(Tail(routes))

RECURSIVE LegsOfRoutes(_)
LegsOfRoutes(routes) ==
  IF Len(routes) = 0 THEN 0 ELSE Len(routes[1]) + LegsOfRoutes(Tail(routes))

\* steps and legs of the response consumed so far
StepsSeen == StepsOfRoutes(routesResp) + SumLens(rt) + Len(leg)
LegsSeen == LegsOfRoutes(routesResp) + Len(rt) + (IF pc = "steps" THEN 1 ELSE 0)
RoutesSeen == Len(routesResp) + (IF pc \in {"legs", "steps"} THEN 1 ELSE 0)
\* size of the part of the directions response consumed so far
InputSize == RoutesSeen + LegsSeen + StepsSeen

\* the locals of a request that has not begun
Fresh ==
  [pc |-> "idle", status |-> 0, routesResp |-> <<>>, rt |-> <<>>, leg |-> <<>>,
   out |-> <<>>, routeID |-> 0, points |-> <<>>, instructions |-> <<>>,
   cumulativeDistance |-> 0, cumulativeTime |-> 0, lastDesc |-> <<>>]

\* the locals of the running request
Running ==
  [pc |-> pc, status |-> status, routesResp |-> routesResp, rt |-> rt,
   leg |-> leg, out |-> out, routeID |-> routeID, points |-> points,
   instructions |-> instructions, cumulativeDistance |-> cumulativeDistance,
   cumulativeTime |-> cumulativeTime, lastDesc |-> lastDesc]

HandlerInit ==
  /\ pc = "idle"
  /\ status = 0
  /\ routesResp = <<>>
  /\ rt = <<>>
  /\ leg = <<>>
  /\ out = <<>>
  /\ routeID = 0
  /\ points = <<>>
  /\ instructions = <<>>
  /\ cumulativeDistance = 0
  /\ cumulativeTime = 0
  /\ lastDesc = <<>>

StageOff ==
  /\ W = <<>>
  /\ threshold = 0
  /\ result = <<>>
  /\ stage = "off"

Init == HandlerInit /\ parked = Fresh /\ StageOff

\* ------------------------------------------------------------------------
\* The /route handler
\* ------------------------------------------------------------------------
Reject(code) ==
  /\ pc = "idle"
  /\ pc' = "done"
  /\ status' = code
  /\ UNCHANGED <<routesResp, rt, leg, out, routeID, points, instructions,
                 cumulativeDistance, cumulativeTime, lastDesc>>
  /\ UNCHANGED <<stageVars, parked>>

RejectMethod == Reject(StatusMethodNotAllowed)
RejectJSON == Reject(StatusBadRequest)
DirectionsError == Reject(StatusInternalServerError)
NoRoutes == Reject(StatusNotFound)

\* client.Directions answered with at least one route
DirectionsOK ==
  /\ pc = "idle"
  /\ pc' = "routes"
  /\ UNCHANGED <<status, routesResp, rt, leg, out, routeID, points, instructions,
                 cumulativeDistance, cumulativeTime, lastDesc>>
  /\ UNCHANGED <<stageVars, parked>>

\* for i, rt := range routesResp: the head of one iteration
BeginRoute ==
  /\ pc = "routes"
  /\ InputSize < MaxInput
  /\ pc' = "legs"
  /\ routeID' = Len(routesResp) + 1
  /\ points' = <<>>
  /\ instructions' = <<>>
  /\ cumulativeDistance' = 0
  /\ cumulativeTime' = 0
  /\ rt' = <<>>
  /\ UNCHANGED <<status, routesResp, leg, out, lastDesc>>
  /\ UNCHANGED <<stageVars, parked>>

\* mutant: the running totals are leg-scoped
BeginLegResetTotals ==
  /\ pc = "legs"
  /\ InputSize < MaxInput
  /\ pc' = "steps"
  /\ lastDesc' = <<>>
  /\ leg' = <<>>
  /\ cumulativeDistance' = 0
  /\ cumulativeTime' = 0
  /\ UNCHANGED <<status, routesResp, rt, out, routeID, points, instructions>>
  /\ UNCHANGED <<stageVars, parked>>

\* for _, leg := range rt.Legs: the head of one iteration
BeginLeg ==
  /\ pc = "legs"
  /\ InputSize < MaxInput
  /\ pc' = "steps"
  /\ lastDesc' = <<>>
  /\ leg' = <<>>
  /\ UNCHANGED <<status, routesResp, rt, out, routeID, points, instructions,
                 cumulativeDistance, cumulativeTime>>
  /\ UNCHANGED <<stageVars, parked>>

\* the handler panics: its frame is unwound and no response is written
Panic ==
  /\ pc' = "panic"
  /\ status' = 0
  /\ routesResp' = <<>>
  /\ rt' = <<>>
  /\ leg' = <<>>
  /\ out' = <<>>
  /\ routeID' = 0
  /\ points' = <<>>
  /\ instructions' = <<>>
  /\ cumulativeDistance' = 0
  /\ cumulativeTime' = 0
  /\ lastDesc' = <<>>

\* for _, step := range leg.Steps: one iteration
ProcessStep(step, geo, elevResp) ==
  /\ pc = "steps"
  /\ InputSize < MaxInput
  /\ IF extractStreetNameFromHTMLPanics(step.HTMLInstructions)
       THEN Panic
       ELSE
         /\ instructions' =
              Append(instructions,
                     stepInstruction(step, cumulativeDistance, cumulativeTime))
         /\ cumulativeDistance' = cumulativeDistance + step.Distance
         /\ cumulativeTime' = cumulativeTime + step.Duration
         /\ LET desc == stepDesc(step, geo)
            IN IF stepSkipped(desc, lastDesc)
                 THEN /\ UNCHANGED <<lastDesc, points>>
                      /\ leg' = Append(leg, [step |-> step, geo |-> geo,
                                             elev |-> <<>>])
                 ELSE /\ lastDesc' = desc
                      /\ points' = Append(points, stepPoint(step, desc, elevResp))
                      /\ leg' = Append(leg, [step |-> step, geo |-> geo,
                                             elev |-> <<elevResp>>])
         /\ UNCHANGED <<pc, status, routesResp, rt, out, routeID>>
  /\ UNCHANGED <<stageVars, parked>>

\* after the steps of a leg: the arrive instruction and the end-of-leg point
EndLeg(endLocation, geo, elevResp) ==
  /\ pc = "steps"
  /\ pc' = "legs"
  /\ LET endDesc == legEndDesc(geo)
     IN /\ instructions' =
             Append(instructions,
                    arriveInstruction(endLocation, endDesc,
                                      cumulativeDistance, cumulativeTime))
        /\ points' = Append(points, legEndPoint(endLocation, endDesc, elevResp))
  /\ rt' = Append(rt, [Steps |-> leg, EndLocation |-> endLocation,
                       geo |-> geo, elev |-> elevResp])
  /\ leg' = <<>>
  /\ UNCHANGED <<status, routesResp, out, routeID, cumulativeDistance,
                 cumulativeTime, lastDesc>>
  /\ UNCHANGED <<stageVars, parked>>

\* after the legs of a route: steps 1 to 4 and out.Routes = append(...)
EndRoute ==
  /\ pc = "legs"
  /\ pc' = "routes"
  /\ out' = Append(out, [ID |-> routeID,
                         Points |-> setDownhill(simplifyPipeline(points), 0),
                         Instructions |-> instructions])
  /\ routesResp' = Append(routesResp, rt)
  /\ rt' = <<>>
  /\ UNCHANGED <<status, leg, routeID, points, instructions, cumulativeDistance,
                 cumulativeTime, lastDesc>>
  /\ UNCHANGED <<stageVars, parked>>

\* the response is encoded once the provider's routes are exhausted
Respond ==
  /\ pc = "routes"
  /\ Len(routesResp) >= 1
  /\ pc' = "done"
  /\ status' = StatusOK
  /\ UNCHANGED <<routesResp, rt, leg, out, routeID, points, instructions,
                 cumulativeDistance, cumulativeTime, lastDesc>>
  /\ UNCHANGED <<stageVars, parked>>

Next ==
  \/ RejectMethod
  \/ RejectJSON
  \/ DirectionsError
  \/ NoRoutes
  \/ DirectionsOK
  \/ BeginRoute
  \/ BeginLeg
  \/ \E step \in DirectionSteps, geo \in GeoResponses, elevResp \in ElevResponses :
       ProcessStep(step, geo, elevResp)
  \/ \E endLocation \in EndLocations, geo \in GeoResponses, elevResp \in ElevResponses :
       EndLeg(endLocation, geo, elevResp)
  \/ EndRoute
  \/ Respond

Spec == Init /\ [][Next]_vars

\* ------------------------------------------------------------------------
\* Two requests served at once
\* ------------------------------------------------------------------------
\* size of the part of its directions response a request has consumed
SizeOf(q) ==
  StepsOfRoutes(q.routesResp) + SumLens(q.rt) + Len(q.leg)
    + LegsOfRoutes(q.routesResp) + Len(q.rt) + (IF q.pc = "steps" THEN 1 ELSE 0)
    + Len(q.routesResp) + (IF q.pc \in {"legs", "steps"} THEN 1 ELSE 0)

\* mutant: instructions is one slice shared by the requests
SwitchSharedInstructions ==
  /\ parked' = [Running EXCEPT !.instructions = parked.instructions]
  /\ pc' = parked.pc
  /\ status' = parked.status
  /\ routesResp' = parked.routesResp
  /\ rt' = parked.rt
  /\ leg' = parked.leg
  /\ out' = parked.out
  /\ routeID' = parked.routeID
  /\ points' = parked.points
  /\ instructions' = instructions
  /\ cumulativeDistance' = parked.cumulativeDistance
  /\ cumulativeTime' = parked.cumulativeTime
  /\ lastDesc' = parked.lastDesc
  /\ UNCHANGED stageVars

\* net/http serves every request in a goroutine of its own: the scheduler
\* suspends the running handler and resumes the other one, each with the
\* locals of its own call of the closure
Switch ==
  /\ parked' = Running
  /\ pc' = parked.pc
  /\ status' = parked.status
  /\ routesResp' = parked.routesResp
  /\ rt' = parked.rt
  /\ leg' = parked.leg
  /\ out' = parked.out
  /\ routeID' = parked.routeID
  /\ points' = parked.points
  /\ instructions' = parked.instructions
  /\ cumulativeDistance' = parked.cumulativeDistance
  /\ cumulativeTime' = parked.cumulativeTime
  /\ lastDesc' = parked.lastDesc
  /\ UNCHANGED stageVars

\* a step of the running handler, within the bound on what both consume
RunningStep == Next /\ InputSize' + SizeOf(parked') <= MaxShared

ConcNext == RunningStep \/ Switch

ConcSpec == Init /\ [][ConcNext]_vars

\* ------------------------------------------------------------------------
\* The stages applied to arbitrary inputs
\* ------------------------------------------------------------------------
StageInit ==
  /\ HandlerInit
  /\ parked = Fresh
  /\ W \in StageInputs
  /\ threshold = 0
  /\ result = <<>>
  /\ stage = "input"

Apply(name, d, output) ==
  /\ stage = "input"
  /\ stage' = name
  /\ threshold' = d
  /\ result' = output
  /\ UNCHANGED W
  /\ UNCHANGED <<handlerVars, parked>>

ApplySimplifyRoute(d) == Apply("simplifyRoute", d, simplifyRoute(W, d))
ApplyRemoveZigZags(d) == Apply("removeZigZags", d, removeZigZags(W, d))
ApplyMergeDuplicates == Apply("mergeDuplicateDescriptions", 0, mergeDuplicateDescriptions(W))
ApplyPipeline == Apply("pipeline", 0, simplifyPipeline(W))

StageNext ==
  \/ \E d \in Thresholds : ApplySimplifyRoute(d)
  \/ \E d \in Thresholds : ApplyRemoveZigZags(d)
  \/ ApplyMergeDuplicates
  \/ ApplyPipeline

StageSpec == StageInit /\ [][StageNext]_vars

\* ------------------------------------------------------------------------
\* The label helpers applied to arbitrary markup and lookup answers
\* ------------------------------------------------------------------------
RECURSIVE Concat(_)
Concat(parts) == IF Len(parts) = 0 THEN <<>> ELSE parts[1] \o Concat(Tail(parts))

\* pieces a step's HTMLInstructions is put together from
PieceText == <<"G","o">>
PieceOntoMixed == <<" ","O","n","T","o"," ">>
PieceBold == <<"<","b",">","E","l","m","<","/","b",">">>
PieceBoldPadded == <<"<","b",">"," ","K","y"," ","<","/","b",">">>
MarkupPieces ==
  {PieceText, LitOnto, PieceOntoMixed, LitOn, PieceBold, PieceBoldPadded,
   LitBOpen, <<"<">>, <<">">>, WideUpper}

\* "Turn <b>left</b> onto <b>Market St</b>" and "Continue straight"
MarkupMarket ==
  <<"T","u","r","n"," ","<","b",">","l","e","f","t","<","/","b",">"," ","o","n",
    "t","o"," ","<","b",">","M","a","r","k","e","t"," ","S","t","<","/","b",">">>
MarkupStraight ==
  <<"C","o","n","t","i","n","u","e"," ","s","t","r","a","i","g","h","t">>

Markups ==
  {Concat(parts) : parts \in UNION {[1..n -> MarkupPieces] : n \in 0..MaxParts}}
    \cup {MarkupMarket, MarkupStraight}

\* names a reverse-geocode result can carry
NameUnnamed == <<"U","n","n","a","m","e","d"," ","R","d">>
NamePlusCode == <<"8","+","Q">>
NameInnerUnnamed == <<"5"," ","U","n","n","a","m","e","d">>
GeoNames == {NameOak, NameUnnamed, NamePlusCode, NameInnerUnnamed, <<>>}

CompNumber == [Types |-> <<"street_number">>, LongName |-> <<"1">>]
CompRoute(name) == [Types |-> <<"route">>, LongName |-> name]
CompPoliticalRoute(name) == [Types |-> <<"political", "route">>, LongName |-> name]

GeoEmpty == [err |-> FALSE, results |-> <<>>]
GeoResult(comps, formatted) ==
  [err |-> FALSE,
   results |-> << [AddressComponents |-> comps, FormattedAddress |-> formatted] >>]

GeoCases ==
  {GeoErr, GeoEmpty}
    \cup {GeoResult(comps, f) : comps \in {<<>>, <<CompNumber>>}, f \in GeoNames}
    \cup {GeoResult(<<CompNumber, CompRoute(n)>>, f) :
            n \in GeoNames, f \in {NameOak, NameInnerUnnamed}}
    \cup {GeoResult(<<CompPoliticalRoute(n), CompRoute(NameOak)>>, f) :
            n \in GeoNames, f \in {NameOak, NameInnerUnnamed}}

LabelInputs ==
  [html : Markups, geo : {GeoErr}]
    \cup [html : {HtmlOnto, HtmlNone, MarkupMarket}, geo : GeoCases]

LabelInit ==
  /\ HandlerInit
  /\ parked = Fresh
  /\ W \in LabelInputs
  /\ threshold = 0
  /\ result = <<>>
  /\ stage = "input"

\* one call of a helper on the input; a call that panics leaves no result
LabelApply(name, panics, output) ==
  /\ stage = "input"
  /\ stage' = IF panics THEN "panic" ELSE name
  /\ result' = IF panics THEN <<>> ELSE output
  /\ UNCHANGED <<W, threshold>>
  /\ UNCHANGED <<handlerVars, parked>>

StepOf(html) ==
  [StartLocation |-> [Lat |-> 0, Lng |-> 0], HTMLInstructions |-> html,
   Distance |-> 0, Duration |-> 0]

ApplyExtractStreetNameFromHTML ==
  LabelApply("extractStreetNameFromHTML", extractStreetNameFromHTMLPanics(W.html),
             extractStreetNameFromHTML(W.html))
ApplyStripHTML == LabelApply("stripHTML", FALSE, stripHTML(W.html))
ApplyStreetName ==
  LabelApply("streetName", extractStreetNameFromHTMLPanics(W.html),
             stepInstruction(StepOf(W.html), 0, 0).StreetName)
ApplyReverseGeocode ==
  LabelApply("extractStreetNameFromReverseGeocode", FALSE,
             extractStreetNameFromReverseGeocode(W.geo))
ApplyStepDesc == LabelApply("stepDesc", FALSE, stepDesc(StepOf(W.html), W.geo))
ApplyLegEndDesc == LabelApply("legEndDesc", FALSE, legEndDesc(W.geo))

LabelNext ==
  \/ ApplyExtractStreetNameFromHTML
  \/ ApplyStripHTML
  \/ ApplyStreetName
  \/ ApplyReverseGeocode
  \/ ApplyStepDesc
  \/ ApplyLegEndDesc

LabelSpec == LabelInit /\ [][LabelNext]_vars

\* ------------------------------------------------------------------------
\* Vocabulary of the properties
\* ------------------------------------------------------------------------
\* the elements of s at the indexes K, in index order
SelectIdx(s, K) ==
  [j \in 1..Cardinality(K) |->
     s[CHOOSE i \in K : Cardinality({m \in K : m < i}) = j - 1]]

IsSubseq(a, b) == \E K \in SUBSET (1..Len(b)) : a = SelectIdx(b, K)

\* the kept index that precedes i
PrevKept(K, i) == SetMax({k \in K : k < i})

Apart(p, q) == haversine(p.Lat, p.Lng, q.Lat, q.Lng)

\* K is a set of kept indexes of W that obeys the decimation rule for Dmin
DecimationKeeps(K, Dmin) ==
  /\ 1 \in K
  /\ Len(W) \in K
  /\ \A i \in 2..(Len(W) - 1) :
       (i \in K) <=> (Apart(W[PrevKept(K, i)], W[i]) >= Dmin)

\* K is a set of kept indexes of W that obeys the zigzag rule for Zmin
ZigZagKeeps(K, Zmin) ==
  /\ 1 \in K
  /\ Len(W) \in K
  /\ \A i \in 2..(Len(W) - 1) :
       LET prev == W[PrevKept(K, i)]
           curr == W[i]
           next == W[i + 1]
           d1 == Apart(prev, curr)
           d2 == Apart(curr, next)
           back == Apart(prev, next)
       IN (i \notin K) <=> (back < d1 /\ back < d2 /\ back < Zmin)

\* the first index of every maximal run of equal descriptions
RunStarts(s) ==
  {i \in 1..Len(s) : i = 1 \/ s[i].Description # s[i - 1].Description}

\* ------------------------------------------------------------------------
\* Properties of the stages (checked under StageSpec)
\* ------------------------------------------------------------------------

\* C3: decimation of a sequence of length >= 3 keeps an interior element iff
\* it is at least Dmin away from the most recently kept element (initially the
\* first element); so every kept interior element is at least Dmin away from
\* its predecessor in the output.
C3_DecimationRule ==
  (stage = "simplifyRoute" /\ Len(W) >= 3) =>
     /\ \E K \in SUBSET (1..Len(W)) :
          DecimationKeeps(K, threshold) /\ result = SelectIdx(W, K)
     /\ \A j \in 2..(Len(result) - 1) :
          Apart(result[j - 1], result[j]) >= threshold

\* an interior element exactly Dmin away from the last kept one is kept, and
\* a later interior element is dropped
C3_Witness ==
  /\ stage = "simplifyRoute"
  /\ Len(W) = 4
  /\ result = <<W[1], W[2], W[4]>>
  /\ Apart(W[1], W[2]) = threshold
  /\ Apart(W[2], W[3]) < threshold

\* C4: the output of decimation starts with the input's first waypoint and
\* ends with the input's last waypoint, for every non-empty input, even when
\* the last waypoint is closer than Dmin to the previously kept one.
C4_DecimationKeepsEnds ==
  (stage = "simplifyRoute" /\ Len(W) >= 1) =>
     /\ Len(result) >= 1
     /\ result[1] = W[1]
     /\ result[Len(result)] = W[Len(W)]

C4_Witness ==
  /\ stage = "simplifyRoute"
  /\ Len(W) >= 3
  /\ Len(result) >= 2
  /\ result[Len(result)] = W[Len(W)]
  /\ Apart(result[Len(result) - 1], result[Len(result)]) < threshold

\* C5: decimation returns a sequence of length 0, 1 or 2 unchanged, whatever
\* the threshold.
C5_DecimationShortInput ==
  (stage = "simplifyRoute" /\ Len(W) <= 2) => result = W

\* two waypoints closer than the threshold are both returned
C5_Witness ==
  /\ stage = "simplifyRoute"
  /\ Len(W) = 2
  /\ Apart(W[1], W[2]) < threshold
  /\ result = W

\* C6: zigzag removal of a sequence of length >= 3 drops an interior element
\* curr iff back < d1, back < d2 and back < Zmin, with prev the last element
\* kept so far and next the raw successor of curr; the first and the final
\* element are always emitted.
C6_ZigZagRule ==
  (stage = "removeZigZags" /\ Len(W) >= 3) =>
     /\ \E K \in SUBSET (1..Len(W)) :
          ZigZagKeeps(K, threshold) /\ result = SelectIdx(W, K)
     /\ result[1] = W[1]
     /\ result[Len(result)] = W[Len(W)]

\* W[2] is dropped, and W[3] is kept although it would be dropped if prev
\* were its raw predecessor W[2]
C6_Witness ==
  /\ stage = "removeZigZags"
  /\ Len(W) = 4
  /\ result = <<W[1], W[3], W[4]>>
  /\ Apart(W[2], W[4]) < Apart(W[2], W[3])
  /\ Apart(W[2], W[4]) < Apart(W[3], W[4])
  /\ Apart(W[2], W[4]) < threshold

\* C7: duplicate-label merge replaces every maximal run of consecutive
\* waypoints with one description by the first waypoint of the run; the
\* output has no two adjacent waypoints with equal description and as many
\* elements as the input has maximal runs.
C7_MergeRuns ==
  (stage = "mergeDuplicateDescriptions") =>
     /\ result = SelectIdx(W, RunStarts(W))
     /\ Len(result) = Cardinality(RunStarts(W))
     /\ \A j \in 1..(Len(result) - 1) :
          result[j].Description # result[j + 1].Description

\* a run of two different waypoints with one description, then a run of two
C7_Witness ==
  /\ stage = "mergeDuplicateDescriptions"
  /\ Len(W) = 4
  /\ W[1].Description = W[2].Description
  /\ W[1] # W[2]
  /\ W[3].Description = W[4].Description
  /\ W[3] # W[4]
  /\ result = <<W[1], W[3]>>

\* C10: the output of each of decimation, zigzag removal and duplicate-label
\* merge is a subsequence of its input (same elements, same relative order),
\* and so is the output of the three stages composed as the handler composes
\* them.
C10_StagesAreSubsequences ==
  /\ (stage \in {"simplifyRoute", "removeZigZags", "mergeDuplicateDescriptions"})
       => IsSubseq(result, W)
  /\ (stage = "pipeline") =>
       LET a == simplifyRoute(W, MinDist)
           b == removeZigZags(a, MinBacktrack)
       IN /\ IsSubseq(a, W)
          /\ IsSubseq(b, a)
          /\ result = mergeDuplicateDescriptions(b)
          /\ IsSubseq(result, b)
          /\ IsSubseq(result, W)

\* each of the three stages of the pipeline drops a waypoint
C10_Witness ==
  /\ stage = "pipeline"
  /\ Len(W) = 4
  /\ Len(simplifyRoute(W, MinDist)) = 3
  /\ Len(removeZigZags(simplifyRoute(W, MinDist), MinBacktrack)) = 2
  /\ Len(result) = 1

\* ------------------------------------------------------------------------
\* Vocabulary of the handler's properties
\* ------------------------------------------------------------------------
RECURSIVE Flatten(_)
Flatten(legs) ==
  IF Len(legs) = 0 THEN <<>> ELSE legs[1].Steps \o Flatten(Tail(legs))

RECURSIVE DistanceOfFirst(_, _)
DistanceOfFirst(steps, k) ==
  IF k = 0 THEN 0 ELSE steps[k].step.Distance + DistanceOfFirst(steps, k - 1)

RECURSIVE DurationOfFirst(_, _)
DurationOfFirst(steps, k) ==
  IF k = 0 THEN 0 ELSE steps[k].step.Duration + DurationOfFirst(steps, k - 1)

\* I is the instruction list of a route whose closed legs are legs and whose
\* open leg (if hasOpen) has had the steps openSteps so far
InstructionsMatch(I, legs, openSteps, hasOpen) ==
  LET L == Len(legs)
      nLegs == L + (IF hasOpen THEN 1 ELSE 0)
      stepsOf(l) == IF l <= L THEN legs[l].Steps ELSE openSteps
      flat == Flatten(legs) \o openSteps
      before(l) == SumLens(SubSeq(legs, 1, l - 1))
  IN /\ Len(I) = Len(flat) + L
     /\ \A l \in 1..nLegs : \A s \in 1..Len(stepsOf(l)) :
          LET ins == I[before(l) + (l - 1) + s]
              st == stepsOf(l)[s].step
          IN /\ ins.Maneuver = ""
             /\ ins.Instruction = st.HTMLInstructions
             /\ ins.StartLocation = st.StartLocation
             /\ ins.DistanceMeters = DistanceOfFirst(flat, before(l) + s - 1)
             /\ ins.DurationSeconds = DurationOfFirst(flat, before(l) + s - 1)
     /\ \A l \in 1..L :
          LET ins == I[before(l) + Len(legs[l].Steps) + l]
          IN /\ ins.Maneuver = "arrive"
             /\ ins.StartLocation = legs[l].EndLocation
             /\ ins.DistanceMeters = DistanceOfFirst(flat, before(l) + Len(legs[l].Steps))
             /\ ins.DurationSeconds = DurationOfFirst(flat, before(l) + Len(legs[l].Steps))

\* the totals of I start at 0, never decrease, and are carried unchanged from
\* an arrive instruction to the instruction that follows it
TotalsRunOn(I) ==
  /\ Len(I) >= 1 => (I[1].DistanceMeters = 0 /\ I[1].DurationSeconds = 0)
  /\ \A j \in 1..(Len(I) - 1) :
       /\ I[j].DistanceMeters <= I[j + 1].DistanceMeters
       /\ I[j].DurationSeconds <= I[j + 1].DurationSeconds
       /\ I[j].Maneuver = "arrive" =>
            /\ I[j + 1].DistanceMeters = I[j].DistanceMeters
            /\ I[j + 1].DurationSeconds = I[j].DurationSeconds

DescAt(steps, s) == stepDesc(steps[s].step, steps[s].geo)

\* the steps of a leg that get a waypoint: those with a non-empty description
\* that differs from the nearest earlier non-empty description of the leg
KeptSteps(steps) ==
  {s \in 1..Len(steps) :
     LET earlier == {t \in 1..(s - 1) : DescAt(steps, t) # <<>>}
     IN /\ DescAt(steps, s) # <<>>
        /\ earlier = {} \/ DescAt(steps, SetMax(earlier)) # DescAt(steps, s)}

StepWaypoints(steps) ==
  LET kept == SelectIdx([s \in 1..Len(steps) |-> s], KeptSteps(steps))
  IN [j \in 1..Len(kept) |->
        [Lat |-> steps[kept[j]].step.StartLocation.Lat,
         Lng |-> steps[kept[j]].step.StartLocation.Lng,
         Description |-> DescAt(steps, kept[j]),
         Elevation |-> IF steps[kept[j]].elev[1].err THEN 0
                       ELSE steps[kept[j]].elev[1].results[1],
         IsDownHill |-> FALSE]]

LegEndWaypoint(l) ==
  [Lat |-> l.EndLocation.Lat,
   Lng |-> l.EndLocation.Lng,
   Description |-> legEndDesc(l.geo),
   Elevation |-> IF l.elev.err THEN 0 ELSE l.elev.results[1],
   IsDownHill |-> FALSE]

RECURSIVE RawWaypoints(_)
RawWaypoints(legs) ==
  IF Len(legs) = 0 THEN <<>>
  ELSE Append(StepWaypoints(legs[1].Steps), LegEndWaypoint(legs[1]))
         \o RawWaypoints(Tail(legs))

RECURSIVE KeptCount(_)
KeptCount(legs) ==
  IF Len(legs) = 0 THEN 0
  ELSE Cardinality(KeptSteps(legs[1].Steps)) + KeptCount(Tail(legs))

\* ------------------------------------------------------------------------
\* Properties of the handler (checked under Spec)
\* ------------------------------------------------------------------------

\* C1: within one Route the cumulative distance_meters and duration_seconds
\* of the emitted Instructions never decrease in emission order, across all
\* legs, and are not reset at a leg boundary (the instruction after an arrive
\* instruction carries the arrive instruction's totals); the running totals
\* start from 0 again only when the next Route begins.
C1_TotalsRouteScoped ==
  /\ \A r \in 1..Len(out) : TotalsRunOn(out[r].Instructions)
  /\ pc \in {"legs", "steps"} =>
       /\ TotalsRunOn(instructions)
       /\ IF Len(instructions) = 0
            THEN cumulativeDistance = 0 /\ cumulativeTime = 0
            ELSE /\ instructions[Len(instructions)].DistanceMeters <= cumulativeDistance
                 /\ instructions[Len(instructions)].DurationSeconds <= cumulativeTime

\* the first Route has two legs, the second leg's arrive instruction carries
\* the non-zero totals of the first leg, and the second Route has begun with
\* totals 0
C1_Witness ==
  /\ Len(out) = 1
  /\ Len(out[1].Instructions) = 3
  /\ out[1].Instructions[2].Maneuver = "arrive"
  /\ out[1].Instructions[2].DistanceMeters > 0
  /\ out[1].Instructions[3].DistanceMeters = out[1].Instructions[2].DistanceMeters
  /\ out[1].Instructions[3].DurationSeconds > 0
  /\ pc = "legs"
  /\ routeID = 2
  /\ cumulativeDistance = 0
  /\ cumulativeTime = 0

\* C2: the Instruction of a step carries the totals accumulated before that
\* step; after the last step of each leg one Instruction with maneuver
\* "arrive" is emitted at the leg's end coordinate with the totals that
\* include the leg's last step; a Route with S steps in L legs has S + L
\* Instructions, each leg's block ending with its arrive Instruction.
C2_InstructionsPerStepAndLeg ==
  /\ \A r \in 1..Len(out) :
       /\ InstructionsMatch(out[r].Instructions, routesResp[r], <<>>, FALSE)
       /\ Len(out[r].Instructions) = SumLens(routesResp[r]) + Len(routesResp[r])
  /\ pc = "legs" => InstructionsMatch(instructions, rt, <<>>, FALSE)
  /\ pc = "steps" => InstructionsMatch(instructions, rt, leg, TRUE)

\* a Route of two legs with one step each: step, arrive, step, arrive
C2_Witness ==
  /\ Len(out) = 1
  /\ Len(routesResp[1]) = 2
  /\ SumLens(routesResp[1]) = 2
  /\ Len(out[1].Instructions) = 4
  /\ out[1].Instructions[1].Maneuver = ""
  /\ out[1].Instructions[1].DistanceMeters = 0
  /\ out[1].Instructions[2].Maneuver = "arrive"
  /\ out[1].Instructions[2].DistanceMeters = 40
  /\ out[1].Instructions[3].Maneuver = ""
  /\ out[1].Instructions[3].DistanceMeters = 40
  /\ out[1].Instructions[4].Maneuver = "arrive"
  /\ out[1].Instructions[4].DistanceMeters = 80

\* C8: in the waypoint sequence returned for a Route, isDownhill of every
\* waypoint but the last is true iff the next waypoint of the returned
\* sequence is strictly lower; the last waypoint's isDownhill stays false.
C8_DownhillFlags ==
  \A r \in 1..Len(out) :
    LET P == out[r].Points
    IN /\ \A j \in 1..(Len(P) - 1) :
            P[j].IsDownHill <=> (P[j + 1].Elevation < P[j].Elevation)
       /\ Len(P) >= 1 => ~P[Len(P)].IsDownHill

\* three returned waypoints going down, then up
C8_Witness ==
  \E r \in 1..Len(out) :
    LET P == out[r].Points
    IN /\ Len(P) = 3
       /\ P[2].Elevation < P[1].Elevation
       /\ P[1].IsDownHill
       /\ P[3].Elevation > P[2].Elevation
       /\ ~P[2].IsDownHill
       /\ ~P[3].IsDownHill

\* C9 as claimed: a Route with S steps in L legs yields exactly S + L raw
\* waypoints, one per step and one per leg, whatever the lookups return.
C9_RawCountIsStepsPlusLegs ==
  pc = "legs" => Len(points) = SumLens(rt) + Len(rt)

\* C9 as amended: the raw waypoint list holds, per leg and in step order, one
\* waypoint (isDownhill false) for every step whose description is non-empty
\* and differs from the nearest earlier non-empty description of the same
\* leg, followed by the leg's end-of-leg waypoint; a Route with S steps in L
\* legs yields L plus the number of such steps, between L and S + L, raw
\* waypoints.
C9_RawWaypoints ==
  /\ pc = "legs" =>
       /\ points = RawWaypoints(rt)
       /\ Len(points) = KeptCount(rt) + Len(rt)
       /\ Len(rt) <= Len(points)
       /\ Len(points) <= SumLens(rt) + Len(rt)
  /\ pc = "steps" => points = RawWaypoints(rt) \o StepWaypoints(leg)

\* a leg of two steps with the same description: the second step gets no
\* waypoint
C9_Witness ==
  /\ pc = "legs"
  /\ Len(rt) = 1
  /\ Len(rt[1].Steps) = 2
  /\ DescAt(rt[1].Steps, 1) = DescAt(rt[1].Steps, 2)
  /\ DescAt(rt[1].Steps, 1) # <<>>
  /\ Len(points) = 2

\* the label lookup failed or gave no usable label
LabelLookupFailed(geo) ==
  geo.err \/ Len(geo.results) = 0 \/ extractStreetNameFromReverseGeocode(geo) = <<>>

\* the steps of a leg that were given a waypoint, among its first s steps
MadeCount(steps, s) == Cardinality({t \in 1..s : steps[t].elev # <<>>})

RECURSIVE PointsOfLegs(_)
PointsOfLegs(legs) ==
  IF Len(legs) = 0 THEN 0
  ELSE MadeCount(legs[1].Steps, Len(legs[1].Steps)) + 1 + PointsOfLegs(Tail(legs))

\* P and I are the raw waypoints and the instructions built for the closed
\* legs and the open steps: every failed lookup left its default
DefaultsOnFailure(P, I, legs, openSteps) ==
  LET L == Len(legs)
      stepsOf(l) == IF l <= L THEN legs[l].Steps ELSE openSteps
      before(l) == PointsOfLegs(SubSeq(legs, 1, l - 1))
  IN /\ \A l \in 1..(L + 1) : \A s \in 1..Len(stepsOf(l)) :
          LET h == stepsOf(l)[s]
              p == P[before(l) + MadeCount(stepsOf(l), s)]
          IN h.elev # <<>> =>
               /\ h.elev[1].err => p.Elevation = 0
               /\ LabelLookupFailed(h.geo) =>
                    p.Description = stripHTML(h.step.HTMLInstructions)
     /\ \A l \in 1..L :
          LET p == P[before(l + 1)]
              arrive == I[SumLens(SubSeq(legs, 1, l)) + l]
          IN /\ legs[l].elev.err => p.Elevation = 0
             /\ LabelLookupFailed(legs[l].geo) =>
                  /\ p.Description = LitDestination
                  /\ arrive.StreetName = LitDestination
                  /\ arrive.Maneuver = "arrive"

\* C13: a failed collaborator lookup never aborts route construction: a
\* failed elevation lookup gives the waypoint elevation 0; a failed or empty
\* label lookup gives a step waypoint the tag-stripped markup as description
\* and the end of a leg the label "Destination"; the Route is still built
\* with all its instructions and is part of the response.
C13_LookupFailuresDegrade ==
  /\ pc = "legs" => DefaultsOnFailure(points, instructions, rt, <<>>)
  /\ pc = "steps" => DefaultsOnFailure(points, instructions, rt, leg)
  /\ pc \in {"routes", "legs", "steps"} => status = 0
  /\ pc \in {"routes", "legs", "steps", "done"} =>
       /\ Len(out) = Len(routesResp)
       /\ \A r \in 1..Len(out) :
            /\ out[r].ID = r
            /\ Len(out[r].Instructions) = SumLens(routesResp[r]) + Len(routesResp[r])
  /\ pc = "legs" => Len(instructions) = SumLens(rt) + Len(rt)
  /\ pc = "done" /\ status # StatusOK => Len(out) = 0
  /\ pc = "done" /\ status = StatusOK => Len(out) >= 1

\* a response whose only Route had every lookup fail: the step waypoint is
\* described by the stripped markup, the end of the leg is "Destination",
\* both have elevation 0, and both instructions are there
C13_Witness ==
  /\ pc = "done"
  /\ status = StatusOK
  /\ Len(out) = 1
  /\ Len(routesResp[1]) = 1
  /\ Len(routesResp[1][1].Steps) = 1
  /\ routesResp[1][1].geo.err
  /\ routesResp[1][1].elev.err
  /\ routesResp[1][1].Steps[1].geo.err
  /\ routesResp[1][1].Steps[1].elev = <<ElevErr>>
  /\ Len(out[1].Points) = 2
  /\ out[1].Points[1].Description = stripHTML(HtmlOnto)
  /\ out[1].Points[1].Elevation = 0
  /\ out[1].Points[2].Description = LitDestination
  /\ out[1].Points[2].Elevation = 0
  /\ Len(out[1].Instructions) = 2
  /\ out[1].Instructions[2].StreetName = LitDestination

\* ------------------------------------------------------------------------
\* Further properties of the stages (checked under StageSpec)
\* ------------------------------------------------------------------------
EndsKept(input, output) ==
  Len(input) >= 1 =>
    /\ Len(output) >= 1
    /\ output[1] = input[1]
    /\ output[Len(output)] = input[Len(input)]

\* the first element is kept and the last output carries the description of
\* the last input
EndsRepresented(input, output) ==
  Len(input) >= 1 =>
    /\ Len(output) >= 1
    /\ output[1] = input[1]
    /\ output[Len(output)].Description = input[Len(input)].Description

\* C11: for every non-empty input, decimation followed by zigzag removal
\* keeps the first and the last input waypoint; duplicate-label merge may
\* drop the last one, and the output of decimate -> remove zigzags -> merge
\* starts with the input's first waypoint and ends with a waypoint whose
\* description is that of the input's last waypoint.
C11_EndpointsThroughPipeline ==
  /\ stage = "removeZigZags" => EndsKept(W, result)
  /\ stage = "mergeDuplicateDescriptions" => EndsRepresented(W, result)
  /\ stage = "pipeline" =>
       LET a == simplifyRoute(W, MinDist)
           b == removeZigZags(a, MinBacktrack)
       IN /\ EndsKept(W, a)
          /\ EndsKept(W, b)
          /\ EndsRepresented(W, result)

\* the merge drops the last waypoint, which decimation and zigzag removal
\* had kept, and a waypoint with its description ends the output
C11_Witness ==
  /\ stage = "pipeline"
  /\ Len(W) = 4
  /\ LET b == removeZigZags(simplifyRoute(W, MinDist), MinBacktrack)
     IN /\ Len(b) = 3
        /\ b[3] = W[4]
        /\ Len(result) = 2
        /\ result[2] # W[4]
        /\ result[2].Description = W[4].Description
        /\ result[1] = W[1]

\* C12: after each of decimation, zigzag removal and duplicate-label merge
\* the output is no longer than the input, for every input (lengths 0, 1 and
\* 2 included) and every threshold.
C12_StagesNeverGrow ==
  /\ stage \in {"simplifyRoute", "removeZigZags", "mergeDuplicateDescriptions"}
       => Len(result) <= Len(W)
  /\ stage = "pipeline" =>
       LET a == simplifyRoute(W, MinDist)
           b == removeZigZags(a, MinBacktrack)
       IN /\ Len(a) <= Len(W)
          /\ Len(b) <= Len(a)
          /\ Len(result) <= Len(b)

\* zigzag removal drops both interior elements of a sequence of four
C12_Witness ==
  /\ stage = "removeZigZags"
  /\ Len(W) = 4
  /\ result = <<W[1], W[4]>>

\* ------------------------------------------------------------------------
\* Properties of the label helpers (checked under LabelSpec)
\* ------------------------------------------------------------------------
LookupAnswered(geo) == ~geo.err /\ Len(geo.results) >= 1

IsRoute(comp) == \E t \in 1..Len(comp.Types) : comp.Types[t] = "route"

HasRouteComponent(geo) ==
  \E k \in 1..Len(geo.results[1].AddressComponents) :
    IsRoute(geo.results[1].AddressComponents[k])

\* the label the lookup answers with: the name of the first component that
\* is a route, and the formatted address when no component is a route
ExternalLabel(geo) ==
  LET comps == geo.results[1].AddressComponents
  IN IF HasRouteComponent(geo)
       THEN comps[CHOOSE k \in 1..Len(comps) :
                    /\ IsRoute(comps[k])
                    /\ \A j \in 1..(k - 1) : ~IsRoute(comps[j])].LongName
       ELSE geo.results[1].FormattedAddress

HasPlus(x) == \E k \in 1..Len(x) : x[k] = "+"

UnnamedAt(x, p) ==
  /\ p + Len(LitUnnamed) <= Len(x)
  /\ \A j \in 1..Len(LitUnnamed) : x[p + j] = LitUnnamed[j]

StartsUnnamed(x) == UnnamedAt(x, 0)
MentionsUnnamed(x) == \E p \in 0..Len(x) : UnnamedAt(x, p)

\* C14 as claimed: an external label that is present, non-empty, has no '+'
\* and does not start with "Unnamed" is the resolved label verbatim; any
\* other is rejected and the label is derived from the step's markup.
C14_ExternalLabelVerbatim ==
  stage = "stepDesc" /\ LookupAnswered(W.geo) =>
    LET x == ExternalLabel(W.geo)
    IN IF x # <<>> /\ ~HasPlus(x) /\ ~StartsUnnamed(x)
         THEN result = x
         ELSE result \in {stripHTML(W.html), extractStreetNameFromHTML(W.html)}

\* the external label is accepted
LabelUsable(geo) ==
  /\ LookupAnswered(geo)
  /\ ExternalLabel(geo) # <<>>
  /\ ~HasPlus(ExternalLabel(geo))
  /\ IF HasRouteComponent(geo)
       THEN ~StartsUnnamed(ExternalLabel(geo))
       ELSE ~MentionsUnnamed(ExternalLabel(geo))

\* C14 as amended: the external label is the name of the first route
\* component of the first result, or the formatted address when there is no
\* route component.  A non-empty label without '+' is the resolved label
\* verbatim when it is a route name that does not start with "Unnamed" or a
\* formatted address that has no "Unnamed" anywhere; every other label is
\* rejected, and the description of the step is then the step's markup with
\* its tags stripped.
C14_ExternalLabelRule ==
  /\ stage = "extractStreetNameFromReverseGeocode" =>
       result = IF LabelUsable(W.geo) THEN ExternalLabel(W.geo) ELSE <<>>
  /\ stage = "stepDesc" =>
       result = IF LabelUsable(W.geo) THEN ExternalLabel(W.geo)
                ELSE stripHTML(W.html)

\* a formatted address with "Unnamed" inside is rejected: the description is
\* the stripped markup, not the bold span
C14_Witness ==
  /\ stage = "stepDesc"
  /\ W.geo = GeoResult(<<CompNumber>>, NameInnerUnnamed)
  /\ W.html = MarkupMarket
  /\ result = stripHTML(MarkupMarket)
  /\ result # extractStreetNameFromHTML(MarkupMarket)

\* lit stands in h at offset p, letter case ignored
FoldAt(h, p, lit) ==
  /\ p + Len(lit) <= Len(h)
  /\ \A j \in 1..Len(lit) : ToLowerRune(h[p + j]) = lit[j]

\* lit stands in h at offset p
LitAt(h, p, lit) ==
  /\ p + Len(lit) <= Len(h)
  /\ \A j \in 1..Len(lit) : h[p + j] = lit[j]

FoldOffsets(h, lit) == {p \in 0..Len(h) : FoldAt(h, p, lit)}

\* the first <b> at or after offset q and the first </b> after it
BoldOpens(h, q) == {b \in q..Len(h) : LitAt(h, b, LitBOpen)}
BoldCloses(h, b) == {e \in (b + 3)..Len(h) : LitAt(h, e, LitBClose)}

HasBoldSpan(h, q) ==
  BoldOpens(h, q) # {} /\ BoldCloses(h, SetMin(BoldOpens(h, q))) # {}

BoldSpanText(h, q) ==
  LET b == SetMin(BoldOpens(h, q))
      e == SetMin(BoldCloses(h, b))
  IN TrimSpace(SubSeq(h, b + 4, e))

\* the bold span that follows the first occurrence of lit, if there is one
SpanAfter(h, lit) ==
  IF FoldOffsets(h, lit) # {}
       /\ HasBoldSpan(h, SetMin(FoldOffsets(h, lit)) + Len(lit))
    THEN [found |-> TRUE,
          text |-> BoldSpanText(h, SetMin(FoldOffsets(h, lit)) + Len(lit))]
    ELSE [found |-> FALSE, text |-> <<>>]

\* position k of h lies between a '<' and the '>' that closes it
InsideTag(h, k) ==
  \E j \in 1..(k - 1) : h[j] = "<" /\ \A m \in (j + 1)..(k - 1) : h[m] # ">"

TagStripped(h) ==
  TrimSpace(SelectIdx(h, {k \in 1..Len(h) :
                            h[k] \notin {"<", ">"} /\ ~InsideTag(h, k)}))

MarkupLabel(h) ==
  IF SpanAfter(h, LitOnto).found THEN SpanAfter(h, LitOnto).text
  ELSE IF SpanAfter(h, LitOn).found THEN SpanAfter(h, LitOn).text
  ELSE TagStripped(h)

\* C15: the label resolved from markup is the trimmed text of the first bold
\* span that follows the first case-insensitive occurrence of " onto ", or
\* else of " on "; if neither gives a bold span, the markup with its tags
\* stripped and trimmed.
C15_MarkupLabel ==
  stage \in {"extractStreetNameFromHTML", "panic"} =>
    /\ stage # "panic"
    /\ result = MarkupLabel(W.html)

\* markup whose every rune keeps its length when lower-cased
SameLengthLowered(h) == Len(ToLower(h)) = Len(h)

\* the rule of C15 on markup whose runes all keep their length in lower case
C15_MarkupLabelSameLength ==
  /\ stage = "panic" => ~SameLengthLowered(W.html)
  /\ stage = "extractStreetNameFromHTML" /\ SameLengthLowered(W.html) =>
       result = MarkupLabel(W.html)
  /\ stage = "stripHTML" => result = TagStripped(W.html)
  /\ stage = "extractStreetNameFromHTML" =>
       /\ W.html = MarkupMarket => result = <<"M","a","r","k","e","t"," ","S","t">>
       /\ W.html = MarkupStraight => result = MarkupStraight

\* the bold span after " onto " is missed: the offset found in the
\* lower-cased copy is one byte too far in the markup
C15_Witness ==
  /\ stage = "extractStreetNameFromHTML"
  /\ W.html = WideUpper \o LitOnto \o PieceBold
  /\ MarkupLabel(W.html) = <<"E","l","m">>
  /\ result = WideUpper \o <<" ","o","n","t","o"," ","E","l","m">>

\* ------------------------------------------------------------------------
\* Properties of two requests served at once (checked under ConcSpec)
\* ------------------------------------------------------------------------
\* the locals of a handler that begins a route
RouteStart ==
  [points |-> <<>>, instructions |-> <<>>, cumulativeDistance |-> 0,
   cumulativeTime |-> 0, lastDesc |-> <<>>]

\* the locals after the recorded steps k.. of a leg, run one after the other
RECURSIVE AloneSteps(_, _, _)
AloneSteps(steps, k, a) ==
  IF k > Len(steps) THEN a
  ELSE
    LET h == steps[k]
        desc == stepDesc(h.step, h.geo)
        skip == stepSkipped(desc, a.lastDesc)
    IN AloneSteps(steps, k + 1,
         [points |-> IF skip THEN a.points
                     ELSE Append(a.points, stepPoint(h.step, desc, h.elev[1])),
          instructions |->
            Append(a.instructions,
                   stepInstruction(h.step, a.cumulativeDistance, a.cumulativeTime)),
          cumulativeDistance |-> a.cumulativeDistance + h.step.Distance,
          cumulativeTime |-> a.cumulativeTime + h.step.Duration,
          lastDesc |-> IF skip THEN a.lastDesc ELSE desc])

\* the locals after the recorded legs k.. of a route
RECURSIVE AloneLegs(_, _, _)
AloneLegs(legs, k, a) ==
  IF k > Len(legs) THEN a
  ELSE
    LET l == legs[k]
        b == AloneSteps(l.Steps, 1, [a EXCEPT !.lastDesc = <<>>])
        endDesc == legEndDesc(l.geo)
    IN AloneLegs(legs, k + 1,
         [b EXCEPT
            !.instructions =
              Append(b.instructions,
                     arriveInstruction(l.EndLocation, endDesc,
                                       b.cumulativeDistance, b.cumulativeTime)),
            !.points = Append(b.points, legEndPoint(l.EndLocation, endDesc, l.elev))])

\* the RouteSet a request builds from the recorded response when it is the
\* only request
AloneRouteSet(routes) ==
  [r \in 1..Len(routes) |->
     LET a == AloneLegs(routes[r], 1, RouteStart)
     IN [ID |-> r,
         Points |-> setDownhill(simplifyPipeline(a.points), 0),
         Instructions |-> a.instructions]]

LocalsOf(q) ==
  [points |-> q.points, instructions |-> q.instructions,
   cumulativeDistance |-> q.cumulativeDistance,
   cumulativeTime |-> q.cumulativeTime, lastDesc |-> q.lastDesc]

\* request q is where it would be had it run alone on what it consumed
AsAlone(q) ==
  /\ q.pc \in {"routes", "legs", "steps", "done"} => q.out = AloneRouteSet(q.routesResp)
  /\ q.pc \in {"legs", "steps"} => q.routeID = Len(q.routesResp) + 1
  /\ q.pc = "legs" =>
       [LocalsOf(q) EXCEPT !.lastDesc = <<>>]
         = [AloneLegs(q.rt, 1, RouteStart) EXCEPT !.lastDesc = <<>>]
  /\ q.pc = "steps" =>
       LocalsOf(q) = AloneSteps(q.leg, 1, [AloneLegs(q.rt, 1, RouteStart)
                                             EXCEPT !.lastDesc = <<>>])
  /\ q.pc = "done" /\ q.status = StatusOK => Len(q.out) >= 1

====
